---- MODULE Spec2Model ----
(***************************************************************************)
(* Resolution workflow of hitcastor-api: the resolutions table, the three  *)
(* BullMQ job handlers (prepareResolveJob, commitResolveJob,               *)
(* finalizeResolveJob), the admin routes of resolvePlugin and the routes   *)
(* of resolveRoutes, and the chain they submit transactions to.            *)
(*                                                                         *)
(* A handler is an async function: between two awaits it runs alone, at an *)
(* await another handler may run.  Each handler is therefore modelled as   *)
(* one action per await that touches shared state (the row read, the chain *)
(* submission, the row write); a handler whose only access to the row is   *)
(* one blind write (the prepare handlers) is a single action.              *)
(***************************************************************************)
EXTENDS Integers, Sequences, FiniteSets, TLC

(* ------------------------------ bounds -------------------------------- *)
\* the clock runs over 1..MaxTime
MaxTime == 3
\* at most MaxTx transactions are broadcast in one behaviour
MaxTx == 3
\* the chain's disputeWindow() is one of 1..MaxWindow clock units
MaxWindow == 1
\* chart ranks tried on computeOutcome: 1..MaxRank and the absent rank
MaxRank == 10
\* identifiers tried on extractRankBySongId have 1..MaxIdLen tokens
MaxIdLen == 2
\* evidence strings tried on computeCommitment have 0..MaxStr bytes
MaxStr == 1

(* ------------------------- program constants -------------------------- *)
\* SQL NULL / JS null of a column that holds a number, a timestamp or a
\* transaction hash (hashes are modelled as positive naturals, timestamps
\* as clock values >= 1, so 0 is never a value)
NULL == 0
\* SQL NULL of a text column modelled as a string; like null it is falsy
NULLTEXT == ""
YES == 1
NO == 2
ABSENT_RANK == 101
SCHEMA_TAG == "hitcastor.spotify.top100.v1"
TRACK_PREFIX == "spotify:track:"

Workers == {"w1", "w2"}

(* ------------------------------ database ------------------------------ *)
\* market ids a request or job can name; only those in markets exist
MarketIds == {1, 2}
markets == {1}
\* song_id of the existing market, as the string of identifier tokens
songId == [m \in markets |-> <<"X">>]

\* t0_rank of the existing market, set when the market was registered
marketT0Rank == [m \in markets |-> 12]

\* snapshots table: id -> row (UNIQUE(date_utc, region), region 'global')
snapshots ==
  [i \in {1, 2, 3, 4} |->
     CASE i = 1 -> [id |-> 1, dateUtc |-> "d1", jsonUrl |-> "u1", jsonSha256 |-> "h1"]
       [] i = 2 -> [id |-> 2, dateUtc |-> "d2", jsonUrl |-> "u2", jsonSha256 |-> "H2"]
       [] i = 3 -> [id |-> 3, dateUtc |-> "d3", jsonUrl |-> "u3", jsonSha256 |-> "h3"]
       [] OTHER -> [id |-> 4, dateUtc |-> "d5", jsonUrl |-> "u4", jsonSha256 |-> "h4"]]
\* dates a prepare job can name; no snapshot exists for "d4"
Dates == {"d1", "d2", "d3", "d4", "d5"}

\* a row of the markets table as the registration script inserts it
Market(m) ==
  [marketId |-> m, songId |-> songId[m], t0Rank |-> marketT0Rank[m],
   status |-> "OPEN"]

VARIABLES
  marketTable,  \* markets table: market id -> row
  snapshotTable \* snapshots table: snapshot id -> row

getSnapshotByDate(dateUtc) ==
  IF \E i \in DOMAIN snapshotTable : snapshotTable[i].dateUtc = dateUtc
  THEN (CHOOSE i \in DOMAIN snapshotTable : snapshotTable[i].dateUtc = dateUtc)
  ELSE NULL

getSnapshot(id) == IF id \in DOMAIN snapshotTable THEN id ELSE NULL

\* columns of resolutions
\* (prepared_at, which resolveRoutes writes and nothing reads, is left out)
NumFields == {"t0SnapshotId", "t1SnapshotId", "t0Rank", "t1Rank", "outcome",
              "commitTx", "committedAt", "disputeUntil", "finalizeTx",
              "finalizedAt"}
TextFields == {"t0Url", "t0Sha", "t1Url", "t1Sha", "status"}
Fields == NumFields \cup TextFields

\* a market without a resolutions row
NoRow == <<>>

\* an upsert that, when it stores an outcome, clears every column it is not
\* given (a new preparation discarding the commit and finalize columns)
upsertClearingOnOutcome(cur, upd) ==
  [f \in Fields |->
     IF f \in DOMAIN upd THEN upd[f]
     ELSE IF cur = NoRow \/ "outcome" \in DOMAIN upd
     THEN (IF f \in NumFields THEN NULL ELSE NULLTEXT)
     ELSE cur[f]]

\* an upsert that replaces the whole row: a column it is not given becomes NULL
upsertReplacingRow(cur, upd) ==
  [f \in Fields |->
     IF f \in DOMAIN upd THEN upd[f]
     ELSE IF f \in NumFields THEN NULL ELSE NULLTEXT]

\* an upsert that leaves the t1_rank column out of its statement
upsertDroppingT1Rank(cur, upd) ==
  [f \in Fields |->
     IF f \in DOMAIN upd \ {"t1Rank"} THEN upd[f]
     ELSE IF cur = NoRow THEN (IF f \in NumFields THEN NULL ELSE NULLTEXT)
     ELSE cur[f]]

\* INSERT ... ON CONFLICT (market_id) DO UPDATE SET <the columns of upd>
upsertResolution(cur, upd) ==
  [f \in Fields |->
     IF f \in DOMAIN upd THEN upd[f]
     ELSE IF cur = NoRow THEN (IF f \in NumFields THEN NULL ELSE NULLTEXT)
     ELSE cur[f]]

\* UPDATE resolutions SET <the columns of upd> WHERE market_id = $1
updateResolution(cur, upd) ==
  IF cur = NoRow THEN NoRow
  ELSE [f \in Fields |-> IF f \in DOMAIN upd THEN upd[f] ELSE cur[f]]

(* ------------------------------ evidence ------------------------------ *)
\* the documents behind the URLs; items carry rank and trackId (a string
\* modelled as its sequence of tokens)
Urls == {"u1", "u2", "u3", "u4"}

\* typeof of the fields of a well-formed document and of a well-formed item
MetaTypes == [dateUTC |-> "string", region |-> "string", provider |-> "string",
              listLength |-> "number"]
ItemTypes == [rank |-> "number", title |-> "string", artist |-> "string",
              streams |-> "number", trackId |-> "string", spotifyUrl |-> "string"]

\* a well-formed item of a chart
Item(rank, trackId) == [rank |-> rank, trackId |-> trackId, typeOf |-> ItemTypes]

\* u3 carries another schema tag; u4 carries the right tag and an item
\* without a title
Document ==
  [u \in Urls |->
     CASE u = "u1" -> [schema |-> SCHEMA_TAG, typeOf |-> MetaTypes, isArray |-> TRUE,
                       items |-> <<Item(1, <<"Y">>),
                                   Item(12, <<TRACK_PREFIX, "X">>)>>]
       [] u = "u2" -> [schema |-> SCHEMA_TAG, typeOf |-> MetaTypes, isArray |-> TRUE,
                       items |-> <<Item(8, <<"X">>),
                                   Item(9, <<TRACK_PREFIX, "Y">>)>>]
       [] u = "u3" -> [schema |-> "wrong.schema.v1", typeOf |-> MetaTypes,
                       isArray |-> TRUE, items |-> <<>>]
       [] OTHER    -> [schema |-> SCHEMA_TAG, typeOf |-> MetaTypes, isArray |-> TRUE,
                       items |-> <<[rank |-> 3, trackId |-> <<"X">>,
                                    typeOf |-> [ItemTypes EXCEPT !.title = "undefined"]]>>]]

\* bytes that are not the document of any URL (a tampered response)
Tampered == [schema |-> SCHEMA_TAG, typeOf |-> MetaTypes, isArray |-> TRUE,
             items |-> <<>>]

\* sha256: '0x' + lower-case hex; distinct documents have distinct digests
sha256(data) ==
  IF data = Document["u1"] THEN "h1"
  ELSE IF data = Document["u2"] THEN "h2"
  ELSE IF data = Document["u3"] THEN "h3"
  ELSE IF data = Document["u4"] THEN "h4"
  ELSE "h9"

HexStrings == {"h1", "h2", "h3", "h4", "h9", "H1", "H2", "H3", "H4", "H9"}
toLowerCase(h) ==
  CASE h = "H1" -> "h1" [] h = "H2" -> "h2" [] h = "H3" -> "h3" [] h = "H4" -> "h4"
    [] h = "H9" -> "h9" [] OTHER -> h

\* a check that accepts whatever bytes were retrieved
verifyHashSkipped(data, expectedHash) == TRUE

verifyHash(data, expectedHash) ==
  toLowerCase(sha256(data)) = toLowerCase(expectedHash)

\* what the network answers to GET url
NetOutcomes == {"ok", "down", "tampered"}
Response(url, net) == IF net = "tampered" THEN Tampered ELSE Document[url]

\* "ok", or the error fetchAndVerifyHash throws
fetchAndVerifyHash(url, expectedHash, net) ==
  IF net = "down" THEN "network"
  ELSE IF ~verifyHash(Response(url, net), expectedHash) THEN "integrity"
  ELSE "ok"

(* -------------------------------- ranks ------------------------------- *)
RECURSIVE RemoveFirst(_, _)
\* String.prototype.replace(pattern, ''): drops the first occurrence
RemoveFirst(s, tok) ==
  IF s = <<>> THEN <<>>
  ELSE IF Head(s) = tok THEN Tail(s)
  ELSE <<Head(s)>> \o RemoveFirst(Tail(s), tok)

RECURSIVE RankFrom(_, _, _)
RankFrom(items, i, cleanSongId) ==
  IF i > Len(items) THEN ABSENT_RANK
  ELSE IF RemoveFirst(items[i].trackId, TRACK_PREFIX) = cleanSongId
       THEN items[i].rank
       ELSE RankFrom(items, i + 1, cleanSongId)

extractRankBySongId(snapshot, sid) ==
  RankFrom(snapshot.items, 1, RemoveFirst(sid, TRACK_PREFIX))

\* an outcome rule that counts an unchanged rank as an improvement
computeOutcomeInclusive(t0Rank, t1Rank) == IF t1Rank <= t0Rank THEN YES ELSE NO

computeOutcome(t0Rank, t1Rank) == IF t1Rank < t0Rank THEN YES ELSE NO

\* a check that accepts every document
validateSnapshotSchemaSkipped(data) == TRUE

\* data is a parsed JSON object here: typeof data === 'object' holds
validateSnapshotSchema(data) ==
  /\ data.schema = SCHEMA_TAG
  /\ data.typeOf.dateUTC = "string"
  /\ data.typeOf.region = "string"
  /\ data.typeOf.provider = "string"
  /\ data.typeOf.listLength = "number"
  /\ data.isArray
  /\ \A i \in 1..Len(data.items) :
       /\ data.items[i].typeOf.rank = "number"
       /\ data.items[i].typeOf.title = "string"
       /\ data.items[i].typeOf.artist = "string"
       /\ data.items[i].typeOf.streams = "number"
       /\ data.items[i].typeOf.trackId = "string"
       /\ data.items[i].typeOf.spotifyUrl = "string"

(* -------------------------------- state ------------------------------- *)
VARIABLES
  now,          \* the clock (Date.now())
  resolutions,  \* resolutions table: market id -> row or NoRow
  chainTxs,     \* how many commit / finalize transactions were broadcast per market
  disputeWindow,\* what Resolver.disputeWindow() returns
  workers,      \* per executing handler: its position and locals
  queue,        \* the BullMQ queues: task key -> task
  commitments,  \* history: per market, the values hashed into the commitment
                \* of the commitResolve transaction broadcast last
  last          \* the handler execution that ended in the step just taken, if any

vars ==
  <<now, resolutions, chainTxs, disputeWindow, workers, queue, last,
    marketTable, snapshotTable, commitments>>

PrepareOps == {"prepareJob", "preparePlugin", "prepareRoutes"}
CommitOps == {"commitJob", "commitPlugin", "commitRoutes"}
FinalizeOps == {"finalizeJob", "finalizePlugin", "finalizeRoutes"}

\* the contract function a handler calls
Fn(op) == IF op \in CommitOps THEN "commit" ELSE "finalize"

\* (function, market) pairs that can be broadcast: a job or an admin route only
\* for a market that exists, the resolveRoutes finalize route for any id
TxKeys == ({"commit", "finalize"} \X markets) \cup ({"finalize"} \X MarketIds)

RECURSIVE SumOver(_, _)
SumOver(f, keys) ==
  IF keys = {} THEN 0
  ELSE LET k == CHOOSE x \in keys : TRUE IN f[k] + SumOver(f, keys \ {k})

\* number of transactions broadcast so far; the next hash is one more
TxCount == SumOver(chainTxs, TxKeys)

\* receipt: what the chain answers about the transaction the handler broadcast
\* args: the values the handler has built for its chain call
NoArgs == <<>>
Idle == [pc |-> "idle", op |-> "none", marketId |-> NULL, txHash |-> NULL,
         receipt |-> "none", args |-> NoArgs]

\* alert: what the execution sent through lib/alerts.ts
NoExecution ==
  [op |-> "none", marketId |-> NULL, ok |-> FALSE, code |-> "none",
   txHash |-> NULL, sent |-> FALSE, wrote |-> FALSE, ret |-> <<>>,
   alert |-> "none"]

JobOps == {"prepareJob", "commitJob", "finalizeJob"}

\* the job handlers call alertJobFailure in their catch block, and the commit
\* and finalize handlers call alertResolutionSuccess after their write; the
\* routes send no alert
Alert(op, ok, wrote) ==
  IF op \in JobOps /\ ~ok THEN "failure"
  ELSE IF op \in {"commitJob", "finalizeJob"} /\ ok /\ wrote THEN "success"
  ELSE "none"

QueueNames == {"prepareResolve", "commitResolve", "finalizeResolve"}

\* the queue a job handler is the processor of
QueueOf(op) ==
  IF op = "prepareJob" THEN "prepareResolve"
  ELSE IF op = "commitJob" THEN "commitResolve"
  ELSE IF op = "finalizeJob" THEN "finalizeResolve"
  ELSE "none"

\* attempts of the three enqueue helpers
PREPARE_ATTEMPTS == 3
COMMIT_ATTEMPTS == 5
FINALIZE_ATTEMPTS == 3
Attempts(q) ==
  IF q = "prepareResolve" THEN PREPARE_ATTEMPTS
  ELSE IF q = "commitResolve" THEN COMMIT_ATTEMPTS
  ELSE FINALIZE_ATTEMPTS

\* job ids: "key" is the helper's own `<phase>-<marketId>`, "custom" an id
\* given in the options
JobIds == {"key", "custom"}

\* a task is known by its queue, its market and its job id
TaskKeys == QueueNames \X markets \X JobIds

NoTask == [state |-> "none", attemptsMade |-> 0, attempts |-> 0, notBefore |-> NULL]

\* BullMQ after an attempt of the active task of the handler's queue: a
\* success completes it, a failure requeues it until opts.attempts attempts
\* were made and then fails it.  The clock's unit is the dispute window's; a
\* backoff is shorter than one unit, so a requeued task can run at once.
AfterAttempt(op, m, ok) ==
  LET active == {k \in TaskKeys : /\ k[1] = QueueOf(op) /\ k[2] = m
                                   /\ queue[k].state = "active"}
  IN IF active = {} THEN queue
     ELSE LET k == CHOOSE x \in active : TRUE
              t == queue[k]
          IN [queue EXCEPT ![k] =
                IF ok THEN [t EXCEPT !.state = "completed"]
                ELSE IF t.attemptsMade < t.attempts
                THEN [t EXCEPT !.state = "waiting"]
                ELSE [t EXCEPT !.state = "failed"]]

\* the history of hashed values is kept only in the behaviours that start
\* with recording on; it has no effect on any handler
NotRecording == [recording |-> FALSE, hashed |-> [m \in markets |-> NoArgs]]
Recording == [recording |-> TRUE, hashed |-> [m \in markets |-> NoArgs]]

Hashed(c, m, args) ==
  IF c.recording THEN [c EXCEPT !.hashed[m] = args] ELSE c

Init ==
  /\ commitments = NotRecording
  /\ now = 1
  /\ resolutions = [m \in markets |-> NoRow]
  /\ chainTxs = [k \in TxKeys |-> 0]
  /\ disputeWindow \in 1..MaxWindow
  /\ workers = [w \in Workers |-> Idle]
  /\ queue = [k \in TaskKeys |-> NoTask]
  /\ marketTable = [m \in markets |-> Market(m)]
  /\ snapshotTable = snapshots
  /\ last = NoExecution

getMarket(id) == id \in DOMAIN marketTable
getResolution(id) == IF id \in markets THEN resolutions[id] ELSE NoRow

Free(w) == workers[w].pc = "idle"

\* a handler that ends in its first step
Finish(w, op, m, ok, code, txHash, wrote, ret) ==
  /\ last' = [op |-> op, marketId |-> m, ok |-> ok, code |-> code,
              txHash |-> txHash, sent |-> FALSE, wrote |-> wrote, ret |-> ret,
              alert |-> Alert(op, ok, wrote)]
  /\ queue' = AfterAttempt(op, m, ok)
  /\ UNCHANGED workers

\* csvSha256 of a snapshot that has none
ZERO_SHA == "0x00"

\* the evidence structure a job builds from a snapshot row (the snapshots of
\* the model have no csv file and no ipfs cid)
SnapshotEvidence(id) ==
  [jsonUrl |-> snapshotTable[id].jsonUrl, jsonSha256 |-> snapshotTable[id].jsonSha256,
   csvUrl |-> NULLTEXT, csvSha256 |-> ZERO_SHA, ipfsCid |-> NULLTEXT]

\* the evidence structure the admin routes build
EmptyEvidence ==
  [jsonUrl |-> NULLTEXT, jsonSha256 |-> ZERO_SHA,
   csvUrl |-> NULLTEXT, csvSha256 |-> ZERO_SHA, ipfsCid |-> NULLTEXT]

\* the values a commit hashes with computeCommitment (nonce 0 by default) and
\* a finalize passes to sendFinalizeResolve, built from the row the handler
\* has read; the calls of chain/resolver.ts carry none of them
ChainArgs(op, m) ==
  LET resolution == getResolution(m) IN
  IF resolution = NoRow THEN NoArgs
  ELSE IF op \in {"commitJob", "finalizeJob"}
  THEN [marketId |-> m, t0Rank |-> resolution.t0Rank, t1Rank |-> resolution.t1Rank,
        outcome |-> resolution.outcome,
        t0Evidence |-> SnapshotEvidence(resolution.t0SnapshotId),
        t1Evidence |-> SnapshotEvidence(resolution.t1SnapshotId), nonce |-> 0]
  ELSE IF op \in {"commitPlugin", "finalizePlugin"}
  THEN [marketId |-> m, t0Rank |-> resolution.t0Rank, t1Rank |-> resolution.t1Rank,
        outcome |-> resolution.outcome,
        t0Evidence |-> EmptyEvidence, t1Evidence |-> EmptyEvidence, nonce |-> 0]
  ELSE NoArgs

\* a handler that goes on to its chain submission
Proceed(w, op, m) ==
  /\ workers' = [workers EXCEPT ![w] =
       [pc |-> "send", op |-> op, marketId |-> m, txHash |-> NULL,
        receipt |-> "none", args |-> ChainArgs(op, m)]]
  /\ last' = NoExecution
  /\ UNCHANGED queue

\* a handler that ends in a later step
End(w, ok, code, txHash, sent, wrote) ==
  /\ last' = [op |-> workers[w].op, marketId |-> workers[w].marketId,
              ok |-> ok, code |-> code, txHash |-> txHash, sent |-> sent,
              wrote |-> wrote, ret |-> <<>>,
              alert |-> Alert(workers[w].op, ok, wrote)]
  /\ queue' = AfterAttempt(workers[w].op, workers[w].marketId, ok)
  /\ workers' = [workers EXCEPT ![w] = Idle]

Tick ==
  /\ now < MaxTime
  /\ now' = now + 1
  /\ last' = NoExecution
  /\ UNCHANGED <<resolutions, chainTxs, disputeWindow, marketTable, snapshotTable, commitments, workers, queue>>

(* ------------------------------ prepare ------------------------------- *)
\* the pairs of network answers tried for the two evidence fetches
NetPairs == {<<"ok", "ok">>, <<"down", "ok">>, <<"ok", "tampered">>,
             <<"tampered", "down">>}

\* Promise.all rejects with the error of whichever fetch fails first
FetchErrors(f0, f1) == {f0, f1} \ {"ok"}

\* the (t0Date, t1Date) a prepare job is given
DatePairs == {<<"d1", "d2">>, <<"d2", "d1">>, <<"d2", "d2">>, <<"d1", "d3">>,
              <<"d1", "d5">>, <<"d4", "d1">>}

\* jobs/prepareResolve.ts
PrepareResolveJob(w, m) ==
  /\ Free(w)
  /\ UNCHANGED <<now, chainTxs, disputeWindow, marketTable, snapshotTable, commitments>>
  /\ \/ /\ ~getMarket(m)
        /\ Finish(w, "prepareJob", m, FALSE, "notFound", NULL, FALSE, <<>>)
        /\ UNCHANGED resolutions
     \/ /\ getMarket(m)
        /\ \E dates \in DatePairs, net \in NetPairs :
             LET row == resolutions[m]
                 t0Snapshot == getSnapshotByDate(dates[1])
                 t1Snapshot == getSnapshotByDate(dates[2])
                 Fail(code) ==
                   /\ Finish(w, "prepareJob", m, FALSE, code, NULL, FALSE, <<>>)
                   /\ UNCHANGED resolutions
             IN
             IF t0Snapshot = NULL \/ t1Snapshot = NULL THEN Fail("noSnapshot")
             ELSE
               LET s0 == snapshotTable[t0Snapshot]
                   s1 == snapshotTable[t1Snapshot]
                   f0 == fetchAndVerifyHash(s0.jsonUrl, s0.jsonSha256, net[1])
                   f1 == fetchAndVerifyHash(s1.jsonUrl, s1.jsonSha256, net[2])
                   t0Data == Response(s0.jsonUrl, net[1])
                   t1Data == Response(s1.jsonUrl, net[2])
                   t0Rank == extractRankBySongId(t0Data, marketTable[m].songId)
                   t1Rank == extractRankBySongId(t1Data, marketTable[m].songId)
                   outcome == computeOutcome(t0Rank, t1Rank)
               IN
               IF FetchErrors(f0, f1) # {}
               THEN \E code \in FetchErrors(f0, f1) : Fail(code)
               ELSE IF ~validateSnapshotSchema(t0Data) \/ ~validateSnapshotSchema(t1Data)
               THEN Fail("schema")
               ELSE
                 \/ Fail("dbError")
                 \/ /\ resolutions' = [resolutions EXCEPT ![m] =
                         upsertResolution(row,
                           [t0SnapshotId |-> s0.id, t1SnapshotId |-> s1.id,
                            t0Rank |-> t0Rank, t1Rank |-> t1Rank,
                            outcome |-> outcome])]
                    /\ Finish(w, "prepareJob", m, TRUE, "prepared", NULL, TRUE,
                              <<t0Rank, t1Rank, outcome>>)

\* the evidence a prepare request can name: URL and expected digest
Evidence == [e1 |-> [url |-> "u1", sha |-> "H1"], e2 |-> [url |-> "u2", sha |-> "h2"],
             bad |-> [url |-> "u2", sha |-> "h1"], e3 |-> [url |-> "u3", sha |-> "h3"]]

\* the (t0, t1) evidence of the prepare requests tried
EvidencePairs == {<<Evidence.e1, Evidence.e2>>, <<Evidence.e2, Evidence.e1>>,
                  <<Evidence.e1, Evidence.e1>>, <<Evidence.e1, Evidence.bad>>,
                  <<Evidence.e3, Evidence.e1>>}

\* resolvePlugin POST /:id/prepare-resolve
PluginPrepare(w, m) ==
  /\ Free(w)
  /\ UNCHANGED <<now, chainTxs, disputeWindow, marketTable, snapshotTable, commitments>>
  /\ \/ /\ ~getMarket(m)
        /\ Finish(w, "preparePlugin", m, FALSE, "notFound", NULL, FALSE, <<>>)
        /\ UNCHANGED resolutions
     \/ /\ getMarket(m)
        /\ \E ev \in EvidencePairs, net \in NetPairs :
             LET row == resolutions[m]
                 e0 == ev[1]
                 e1 == ev[2]
                 Fail(code) ==
                   /\ Finish(w, "preparePlugin", m, FALSE, code, NULL, FALSE, <<>>)
                   /\ UNCHANGED resolutions
                 f0 == fetchAndVerifyHash(e0.url, e0.sha, net[1])
                 f1 == fetchAndVerifyHash(e1.url, e1.sha, net[2])
                 t0Snapshot == Response(e0.url, net[1])
                 t1Snapshot == Response(e1.url, net[2])
                 t0Rank == extractRankBySongId(t0Snapshot, marketTable[m].songId)
                 t1Rank == extractRankBySongId(t1Snapshot, marketTable[m].songId)
                 outcome == computeOutcome(t0Rank, t1Rank)
             IN
             IF FetchErrors(f0, f1) # {}
             THEN \E code \in FetchErrors(f0, f1) : Fail(code)
             ELSE IF ~validateSnapshotSchema(t0Snapshot) \/ ~validateSnapshotSchema(t1Snapshot)
             THEN Fail("schema")
             ELSE
               \/ Fail("dbError")
               \/ /\ resolutions' = [resolutions EXCEPT ![m] =
                       upsertResolution(row,
                         [t0Rank |-> t0Rank, t1Rank |-> t1Rank,
                          outcome |-> outcome])]
                  /\ Finish(w, "preparePlugin", m, TRUE, "prepared", NULL, TRUE,
                            <<t0Rank, t1Rank, outcome>>)

\* the request body tried on the resolveRoutes prepare route
RoutesBodies == {[t0 |-> [url |-> "u1", sha |-> "H1"], t1 |-> [url |-> "u2", sha |-> "h2"]]}

\* resolveRoutes POST /:id/prepare-resolve: one INSERT ... ON CONFLICT DO UPDATE;
\* the statement fails when the market does not exist (foreign key) or the
\* database rejects it
RoutesPrepare(w, m) ==
  /\ Free(w)
  /\ UNCHANGED <<now, chainTxs, disputeWindow, marketTable, snapshotTable, commitments>>
  /\ \/ /\ Finish(w, "prepareRoutes", m, FALSE, "dbError", NULL, FALSE, <<>>)
        /\ UNCHANGED resolutions
     \/ /\ getMarket(m)
        /\ \E body \in RoutesBodies :
             /\ resolutions' = [resolutions EXCEPT ![m] =
                  upsertResolution(resolutions[m],
                    [t0Url |-> body.t0.url, t0Sha |-> toLowerCase(body.t0.sha),
                     t1Url |-> body.t1.url, t1Sha |-> toLowerCase(body.t1.sha),
                     status |-> "prepared"])]
             /\ Finish(w, "prepareRoutes", m, TRUE, "prepared", NULL, TRUE, <<>>)

(* ------------------------------- commit ------------------------------- *)
\* the row has both snapshot references and both snapshots exist
HasEvidence(row) ==
  /\ row.t0SnapshotId # NULL /\ getSnapshot(row.t0SnapshotId) # NULL
  /\ row.t1SnapshotId # NULL /\ getSnapshot(row.t1SnapshotId) # NULL

\* a commit job that goes on to the chain for a market without a row
CommitResolveJobWithoutRow(w, m) ==
  /\ Free(w)
  /\ UNCHANGED <<now, resolutions, chainTxs, disputeWindow, marketTable, snapshotTable, commitments>>
  /\ LET resolution == getResolution(m) IN
     IF ~getMarket(m)
     THEN Finish(w, "commitJob", m, FALSE, "notFound", NULL, FALSE, <<>>)
     ELSE IF resolution = NoRow
     THEN Proceed(w, "commitJob", m)
     ELSE IF resolution.outcome = NULL
     THEN Finish(w, "commitJob", m, FALSE, "notPrepared", NULL, FALSE, <<>>)
     ELSE IF resolution.commitTx # NULL
     THEN Finish(w, "commitJob", m, TRUE, "alreadyCommitted",
                 resolution.commitTx, FALSE, <<>>)
     ELSE IF ~HasEvidence(resolution)
     THEN Finish(w, "commitJob", m, FALSE, "missingEvidence", NULL, FALSE, <<>>)
     ELSE Proceed(w, "commitJob", m)

\* jobs/commitResolve.ts, up to the chain submission
CommitResolveJob(w, m) ==
  /\ Free(w)
  /\ UNCHANGED <<now, resolutions, chainTxs, disputeWindow, marketTable, snapshotTable, commitments>>
  /\ LET resolution == getResolution(m) IN
     IF ~getMarket(m)
     THEN Finish(w, "commitJob", m, FALSE, "notFound", NULL, FALSE, <<>>)
     ELSE IF resolution = NoRow \/ resolution.outcome = NULL
     THEN Finish(w, "commitJob", m, FALSE, "notPrepared", NULL, FALSE, <<>>)
     ELSE IF resolution.commitTx # NULL
     THEN Finish(w, "commitJob", m, TRUE, "alreadyCommitted",
                 resolution.commitTx, FALSE, <<>>)
     ELSE IF ~HasEvidence(resolution)
     THEN Finish(w, "commitJob", m, FALSE, "missingEvidence", NULL, FALSE, <<>>)
     ELSE Proceed(w, "commitJob", m)

\* resolvePlugin POST /:id/commit, up to the chain submission
PluginCommit(w, m) ==
  /\ Free(w)
  /\ UNCHANGED <<now, resolutions, chainTxs, disputeWindow, marketTable, snapshotTable, commitments>>
  /\ LET resolution == getResolution(m) IN
     IF ~getMarket(m)
     THEN Finish(w, "commitPlugin", m, FALSE, "notFound", NULL, FALSE, <<>>)
     ELSE IF resolution = NoRow \/ resolution.outcome = NULL
     THEN Finish(w, "commitPlugin", m, FALSE, "notPrepared", NULL, FALSE, <<>>)
     ELSE IF resolution.commitTx # NULL
     THEN Finish(w, "commitPlugin", m, FALSE, "alreadyCommitted", NULL, FALSE, <<>>)
     ELSE Proceed(w, "commitPlugin", m)

\* writeContract: the executing handler's transaction is broadcast
Broadcast(w) ==
  /\ TxCount < MaxTx
  /\ chainTxs' = [chainTxs EXCEPT ![<<Fn(workers[w].op), workers[w].marketId>>] = @ + 1]

\* the handler keeps the hash writeContract returned; the transaction is
\* pending on chain
Sent(w) ==
  /\ workers' = [workers EXCEPT ![w].pc = "persist", ![w].txHash = TxCount + 1,
                                ![w].receipt = "pending"]
  /\ last' = NoExecution
  /\ UNCHANGED queue

\* the handler keeps the hash after waitForTransactionReceipt, which resolves
\* with the receipt of a transaction that succeeded or reverted
SentAndWaited(w) ==
  /\ \E status \in {"success", "reverted"} :
       workers' = [workers EXCEPT ![w].pc = "persist", ![w].txHash = TxCount + 1,
                                  ![w].receipt = status]
  /\ last' = NoExecution
  /\ UNCHANGED queue

\* the chain includes the pending transaction of an executing handler in a block
Mine(w) ==
  /\ workers[w].receipt = "pending"
  /\ \E status \in {"success", "reverted"} :
       workers' = [workers EXCEPT ![w].receipt = status]
  /\ last' = NoExecution
  /\ UNCHANGED <<now, resolutions, chainTxs, disputeWindow, marketTable, snapshotTable, commitments, queue>>

\* chain/viem.ts sendCommitResolve: writeContract throws, or returns the hash
sendCommitResolve(w) ==
  /\ workers[w].pc = "send"
  /\ workers[w].op \in {"commitJob", "commitPlugin"}
  /\ UNCHANGED <<now, resolutions, disputeWindow, marketTable, snapshotTable>>
  /\ \/ /\ End(w, FALSE, "chainError", NULL, FALSE, FALSE)
        /\ UNCHANGED <<chainTxs, commitments>>
     \/ /\ Broadcast(w)
        /\ commitments' = Hashed(commitments, workers[w].marketId, workers[w].args)
        /\ Sent(w)

\* the window end computed from the clock and the chain's window
DisputeUntil(t, disputeWindowSeconds) == t + disputeWindowSeconds

\* a commit whose upsert stores the commit columns and then throws
PersistCommitThenThrow(w) ==
  /\ workers[w].pc = "persist"
  /\ workers[w].op \in {"commitJob", "commitPlugin"}
  /\ UNCHANGED <<now, chainTxs, disputeWindow, marketTable, snapshotTable, commitments>>
  /\ \/ /\ End(w, FALSE, "chainError", NULL, TRUE, FALSE)
        /\ UNCHANGED resolutions
     \/ /\ resolutions' = [resolutions EXCEPT ![workers[w].marketId] =
             upsertResolution(@,
               [commitTx |-> workers[w].txHash, committedAt |-> now,
                disputeUntil |-> DisputeUntil(now, disputeWindow)])]
        /\ \/ End(w, FALSE, "dbError", NULL, TRUE, FALSE)
           \/ End(w, TRUE, "committed", workers[w].txHash, TRUE, TRUE)

\* getDisputeWindow, then the upsert of the commit columns (job and plugin)
PersistCommit(w) ==
  /\ workers[w].pc = "persist"
  /\ workers[w].op \in {"commitJob", "commitPlugin"}
  /\ UNCHANGED <<now, chainTxs, disputeWindow, marketTable, snapshotTable, commitments>>
  /\ \/ /\ End(w, FALSE, "chainError", NULL, TRUE, FALSE)
        /\ UNCHANGED resolutions
     \/ /\ End(w, FALSE, "dbError", NULL, TRUE, FALSE)
        /\ UNCHANGED resolutions
     \/ /\ resolutions' = [resolutions EXCEPT ![workers[w].marketId] =
             upsertResolution(@,
               [commitTx |-> workers[w].txHash, committedAt |-> now,
                disputeUntil |-> DisputeUntil(now, disputeWindow)])]
        /\ End(w, TRUE, "committed", workers[w].txHash, TRUE, TRUE)

\* resolveRoutes POST /:id/commit: the SELECT over resolutions JOIN markets
\* and the guards of commitOnChain on the selected row
RoutesCommit(w, m) ==
  /\ Free(w)
  /\ UNCHANGED <<now, resolutions, chainTxs, disputeWindow, marketTable, snapshotTable, commitments>>
  /\ \/ Finish(w, "commitRoutes", m, FALSE, "dbError", NULL, FALSE, <<>>)
     \/ LET row == getResolution(m) IN
        IF row = NoRow
        THEN Finish(w, "commitRoutes", m, FALSE, "notFound", NULL, FALSE, <<>>)
        ELSE IF row.t0Url = NULLTEXT \/ row.t1Url = NULLTEXT
        THEN Finish(w, "commitRoutes", m, FALSE, "evidenceMissing", NULL, FALSE, <<>>)
        ELSE Proceed(w, "commitRoutes", m)

\* chain/resolver.ts commitOnChain: writeContract, then the wait for the receipt
commitOnChain(w) ==
  /\ workers[w].pc = "send"
  /\ workers[w].op = "commitRoutes"
  /\ UNCHANGED <<now, resolutions, disputeWindow, marketTable, snapshotTable, commitments>>
  /\ \/ /\ End(w, FALSE, "chainError", NULL, FALSE, FALSE)
        /\ UNCHANGED chainTxs
     \/ /\ Broadcast(w)
        /\ End(w, FALSE, "chainError", NULL, TRUE, FALSE)
     \/ /\ Broadcast(w)
        /\ SentAndWaited(w)

\* resolveRoutes POST /:id/commit: UPDATE ... SET status, committed_at, commit_tx
RoutesCommitUpdate(w) ==
  /\ workers[w].pc = "persist"
  /\ workers[w].op = "commitRoutes"
  /\ UNCHANGED <<now, chainTxs, disputeWindow, marketTable, snapshotTable, commitments>>
  /\ \/ /\ End(w, FALSE, "dbError", NULL, TRUE, FALSE)
        /\ UNCHANGED resolutions
     \/ /\ resolutions' = [resolutions EXCEPT ![workers[w].marketId] =
             updateResolution(@,
               [status |-> "committed", committedAt |-> now,
                commitTx |-> workers[w].txHash])]
        /\ End(w, TRUE, "committed", workers[w].txHash, TRUE, TRUE)

(* ------------------------------ finalize ------------------------------- *)
\* the window check with the boundary instant still rejected
WindowActiveInclusive(t, disputeUntil) == t <= disputeUntil

\* new Date() < resolution.disputeUntil
WindowActive(t, disputeUntil) == t < disputeUntil

\* jobs/finalizeResolve.ts, up to the chain submission
FinalizeResolveJob(w, m) ==
  /\ Free(w)
  /\ UNCHANGED <<now, resolutions, chainTxs, disputeWindow, marketTable, snapshotTable, commitments>>
  /\ LET resolution == getResolution(m) IN
     IF ~getMarket(m)
     THEN Finish(w, "finalizeJob", m, FALSE, "notFound", NULL, FALSE, <<>>)
     ELSE IF resolution = NoRow \/ resolution.commitTx = NULL
             \/ resolution.disputeUntil = NULL
     THEN Finish(w, "finalizeJob", m, FALSE, "notCommitted", NULL, FALSE, <<>>)
     ELSE IF resolution.finalizeTx # NULL
     THEN Finish(w, "finalizeJob", m, TRUE, "alreadyFinalized",
                 resolution.finalizeTx, FALSE, <<>>)
     ELSE IF WindowActive(now, resolution.disputeUntil)
     THEN Finish(w, "finalizeJob", m, FALSE, "windowActive", NULL, FALSE, <<>>)
     ELSE IF ~HasEvidence(resolution)
     THEN Finish(w, "finalizeJob", m, FALSE, "missingEvidence", NULL, FALSE, <<>>)
     ELSE Proceed(w, "finalizeJob", m)

\* resolvePlugin POST /:id/finalize, up to the chain submission
PluginFinalize(w, m) ==
  /\ Free(w)
  /\ UNCHANGED <<now, resolutions, chainTxs, disputeWindow, marketTable, snapshotTable, commitments>>
  /\ LET resolution == getResolution(m) IN
     IF ~getMarket(m)
     THEN Finish(w, "finalizePlugin", m, FALSE, "notFound", NULL, FALSE, <<>>)
     ELSE IF resolution = NoRow \/ resolution.commitTx = NULL
             \/ resolution.disputeUntil = NULL
     THEN Finish(w, "finalizePlugin", m, FALSE, "notCommitted", NULL, FALSE, <<>>)
     ELSE IF resolution.finalizeTx # NULL
     THEN Finish(w, "finalizePlugin", m, FALSE, "alreadyFinalized", NULL, FALSE, <<>>)
     ELSE IF WindowActive(now, resolution.disputeUntil)
     THEN Finish(w, "finalizePlugin", m, FALSE, "windowActive", NULL, FALSE, <<>>)
     ELSE Proceed(w, "finalizePlugin", m)

\* chain/viem.ts sendFinalizeResolve: writeContract throws, or returns the hash
sendFinalizeResolve(w) ==
  /\ workers[w].pc = "send"
  /\ workers[w].op \in {"finalizeJob", "finalizePlugin"}
  /\ UNCHANGED <<now, resolutions, disputeWindow, marketTable, snapshotTable, commitments>>
  /\ \/ /\ End(w, FALSE, "chainError", NULL, FALSE, FALSE)
        /\ UNCHANGED chainTxs
     \/ /\ Broadcast(w)
        /\ Sent(w)

\* the upsert of the finalize columns, with an update of the market's status
\* added to it
PersistFinalizeResolvingMarket(w) ==
  /\ workers[w].pc = "persist"
  /\ workers[w].op \in {"finalizeJob", "finalizePlugin"}
  /\ UNCHANGED <<now, chainTxs, disputeWindow, snapshotTable, commitments>>
  /\ \/ /\ End(w, FALSE, "dbError", NULL, TRUE, FALSE)
        /\ UNCHANGED <<resolutions, marketTable>>
     \/ /\ resolutions' = [resolutions EXCEPT ![workers[w].marketId] =
             upsertResolution(@,
               [finalizeTx |-> workers[w].txHash, finalizedAt |-> now])]
        /\ marketTable' =
             [marketTable EXCEPT ![workers[w].marketId].status = "RESOLVED"]
        /\ End(w, TRUE, "finalized", workers[w].txHash, TRUE, TRUE)

\* the upsert of the finalize columns (job and plugin)
PersistFinalize(w) ==
  /\ workers[w].pc = "persist"
  /\ workers[w].op \in {"finalizeJob", "finalizePlugin"}
  /\ UNCHANGED <<now, chainTxs, disputeWindow, marketTable, snapshotTable, commitments>>
  /\ \/ /\ End(w, FALSE, "dbError", NULL, TRUE, FALSE)
        /\ UNCHANGED resolutions
     \/ /\ resolutions' = [resolutions EXCEPT ![workers[w].marketId] =
             upsertResolution(@,
               [finalizeTx |-> workers[w].txHash, finalizedAt |-> now])]
        /\ End(w, TRUE, "finalized", workers[w].txHash, TRUE, TRUE)

\* resolveRoutes POST /:id/finalize: the handler starts with finalizeOnChain
RoutesFinalize(w, m) ==
  /\ Free(w)
  /\ UNCHANGED <<now, resolutions, chainTxs, disputeWindow, marketTable, snapshotTable, commitments>>
  /\ Proceed(w, "finalizeRoutes", m)

\* chain/resolver.ts finalizeOnChain: writeContract, then the wait for the receipt
finalizeOnChain(w) ==
  /\ workers[w].pc = "send"
  /\ workers[w].op = "finalizeRoutes"
  /\ UNCHANGED <<now, resolutions, disputeWindow, marketTable, snapshotTable, commitments>>
  /\ \/ /\ End(w, FALSE, "chainError", NULL, FALSE, FALSE)
        /\ UNCHANGED chainTxs
     \/ /\ Broadcast(w)
        /\ End(w, FALSE, "chainError", NULL, TRUE, FALSE)
     \/ /\ Broadcast(w)
        /\ SentAndWaited(w)

\* resolveRoutes POST /:id/finalize: UPDATE ... SET status, finalized_at, finalize_tx
RoutesFinalizeUpdate(w) ==
  /\ workers[w].pc = "persist"
  /\ workers[w].op = "finalizeRoutes"
  /\ UNCHANGED <<now, chainTxs, disputeWindow, marketTable, snapshotTable, commitments>>
  /\ \/ /\ End(w, FALSE, "dbError", NULL, TRUE, FALSE)
        /\ UNCHANGED resolutions
     \/ /\ resolutions' =
             IF workers[w].marketId \in markets
             THEN [resolutions EXCEPT ![workers[w].marketId] =
                     updateResolution(@,
                       [status |-> "finalized", finalizedAt |-> now,
                        finalizeTx |-> workers[w].txHash])]
             ELSE resolutions
        /\ End(w, TRUE, "finalized", workers[w].txHash, TRUE,
               getResolution(workers[w].marketId) # NoRow)

(* ---------------------------- specifications --------------------------- *)
\* the job handlers and the admin routes of resolvePlugin, which share
\* db/index.ts, one execution at a time
Next ==
  \/ Tick
  \/ \E m \in MarketIds :
       \/ PrepareResolveJob("w1", m)
       \/ PluginPrepare("w1", m)
       \/ CommitResolveJob("w1", m)
       \/ PluginCommit("w1", m)
       \/ FinalizeResolveJob("w1", m)
       \/ PluginFinalize("w1", m)
  \/ sendCommitResolve("w1")
  \/ PersistCommit("w1")
  \/ sendFinalizeResolve("w1")
  \/ PersistFinalize("w1")

Spec == Init /\ [][Next]_vars

\* the routes of resolveRoutes, which query the table directly, together with
\* the job handlers, one execution at a time
NextRoutes ==
  \/ Tick
  \/ \E m \in MarketIds :
       \/ RoutesPrepare("w1", m)
       \/ RoutesCommit("w1", m)
       \/ RoutesFinalize("w1", m)
       \/ PrepareResolveJob("w1", m)
       \/ CommitResolveJob("w1", m)
       \/ FinalizeResolveJob("w1", m)
  \/ commitOnChain("w1")
  \/ RoutesCommitUpdate("w1")
  \/ finalizeOnChain("w1")
  \/ RoutesFinalizeUpdate("w1")
  \/ sendCommitResolve("w1")
  \/ PersistCommit("w1")
  \/ sendFinalizeResolve("w1")
  \/ PersistFinalize("w1")

SpecRoutes == Init /\ [][NextRoutes]_vars

(* ---------------------------- authentication -------------------------- *)
\* env.ADMIN_API_KEY, and the values of the X-Admin-Key header of a request;
\* a request without the header reads as the empty (falsy) value
ADMIN_API_KEY == "admin-key"
HeaderValues == {NULLTEXT, "other-key", ADMIN_API_KEY}

UNAUTHORIZED == 401

\* lib/auth.ts adminAuth: the status of the reply it sends, NULL when it
\* sends none and the request goes on to the handler
adminAuth(adminKey) ==
  IF adminKey = NULLTEXT \/ adminKey # ADMIN_API_KEY THEN UNAUTHORIZED ELSE NULL

\* a reply sent by the preHandler ends the request before the handler runs
Unauthorized(w, op, m) ==
  /\ Free(w)
  /\ Finish(w, op, m, FALSE, "unauthorized", NULL, FALSE, <<>>)
  /\ UNCHANGED <<now, resolutions, chainTxs, disputeWindow, marketTable, snapshotTable, commitments>>

\* the requests to the routes of resolvePlugin, registered with
\* preHandler: adminAuth
PostPluginPrepare(w, m, adminKey) ==
  IF adminAuth(adminKey) = UNAUTHORIZED THEN Unauthorized(w, "preparePlugin", m)
  ELSE PluginPrepare(w, m)

PostPluginCommit(w, m, adminKey) ==
  IF adminAuth(adminKey) = UNAUTHORIZED THEN Unauthorized(w, "commitPlugin", m)
  ELSE PluginCommit(w, m)

PostPluginFinalize(w, m, adminKey) ==
  IF adminAuth(adminKey) = UNAUTHORIZED THEN Unauthorized(w, "finalizePlugin", m)
  ELSE PluginFinalize(w, m)

\* the requests to the routes of resolveRoutes, registered without a
\* preHandler: the header is not read
PostRoutesPrepare(w, m, adminKey) == RoutesPrepare(w, m)

PostRoutesCommit(w, m, adminKey) == RoutesCommit(w, m)

PostRoutesFinalize(w, m, adminKey) == RoutesFinalize(w, m)

\* the requests to the six mutation routes for a market that exists, with
\* each header value
NextAuth ==
  \/ Tick
  \/ \E m \in markets, adminKey \in HeaderValues :
       \/ PostPluginPrepare("w1", m, adminKey)
       \/ PostPluginCommit("w1", m, adminKey)
       \/ PostPluginFinalize("w1", m, adminKey)
       \/ PostRoutesPrepare("w1", m, adminKey)
       \/ PostRoutesCommit("w1", m, adminKey)
       \/ PostRoutesFinalize("w1", m, adminKey)
  \/ sendCommitResolve("w1")
  \/ PersistCommit("w1")
  \/ sendFinalizeResolve("w1")
  \/ PersistFinalize("w1")
  \/ commitOnChain("w1")
  \/ RoutesCommitUpdate("w1")
  \/ finalizeOnChain("w1")
  \/ RoutesFinalizeUpdate("w1")

SpecAuth == Init /\ [][NextAuth]_vars

(* --------------------------- library calls ---------------------------- *)
\* a call of a function of lib/rank.ts or chain/viem.ts: last holds the
\* arguments and the value returned.  The functions keep no state, so every
\* call is taken from the initial state.
Call(fn, ret) ==
  /\ last' = [NoExecution EXCEPT !.op = fn, !.ok = TRUE, !.ret = ret]
  /\ UNCHANGED <<now, resolutions, chainTxs, disputeWindow, marketTable, snapshotTable, commitments, workers, queue>>

Ranks == 1..MaxRank \cup {ABSENT_RANK}

CallComputeOutcome ==
  /\ last.op = "none"
  /\ \E t0Rank \in Ranks, t1Rank \in Ranks :
       Call("computeOutcome", <<t0Rank, t1Rank, computeOutcome(t0Rank, t1Rank)>>)

\* identifier strings: sequences of tokens, the prefix being one token
Tokens == {TRACK_PREFIX, "X", "Y"}
Ids == UNION {[1..n -> Tokens] : n \in 1..MaxIdLen}

\* extractRankBySongId on a chart of two entries
CallExtractRank ==
  /\ last.op = "none"
  /\ \E sid \in Ids, id1 \in Ids, id2 \in Ids :
       Call("extractRankBySongId",
            <<sid, id1, id2,
              extractRankBySongId([items |-> <<Item(1, id1), Item(2, id2)>>], sid)>>)

\* strings as byte sequences over two byte values
Strs == UNION {[1..n -> {1, 2}] : n \in 0..MaxStr}
\* values of a fixed-width argument (uint or bytes32): one word each
Words == {0, 1, 2}

\* encodePacked without the trailing nonce
encodePackedWithoutNonce(a) ==
  <<a.marketId, a.t0Rank, a.t1Rank, a.outcome>>
    \o a.t0Evidence.csvUrl \o <<a.t0Evidence.csvSha256>>
    \o a.t0Evidence.jsonUrl \o <<a.t0Evidence.jsonSha256>>
    \o a.t0Evidence.ipfsCid
    \o a.t1Evidence.csvUrl \o <<a.t1Evidence.csvSha256>>
    \o a.t1Evidence.jsonUrl \o <<a.t1Evidence.jsonSha256>>
    \o a.t1Evidence.ipfsCid

\* viem encodePacked over the fifteen arguments: a fixed-width value takes
\* one word, a string its bytes, with no length and no separator
encodePacked(a) ==
  <<a.marketId, a.t0Rank, a.t1Rank, a.outcome>>
    \o a.t0Evidence.csvUrl \o <<a.t0Evidence.csvSha256>>
    \o a.t0Evidence.jsonUrl \o <<a.t0Evidence.jsonSha256>>
    \o a.t0Evidence.ipfsCid
    \o a.t1Evidence.csvUrl \o <<a.t1Evidence.csvSha256>>
    \o a.t1Evidence.jsonUrl \o <<a.t1Evidence.jsonSha256>>
    \o a.t1Evidence.ipfsCid
    \o <<a.nonce>>

\* keccak256, taken to be free of collisions: the digest stands for its input
keccak256(bytes) == [keccak256 |-> bytes]

computeCommitment(a) == keccak256(encodePacked(a))

\* the argument tuples tried: the two adjacent strings (t0 ipfsCid, t1 csvUrl)
\* take every value
CommitmentArgs ==
  {[marketId |-> 1, t0Rank |-> r, t1Rank |-> 1, outcome |-> o, nonce |-> 0,
    t0Evidence |-> [csvUrl |-> <<>>, csvSha256 |-> 1, jsonUrl |-> <<1>>,
                    jsonSha256 |-> 1, ipfsCid |-> c0],
    t1Evidence |-> [csvUrl |-> u1, csvSha256 |-> 2, jsonUrl |-> <<2>>,
                    jsonSha256 |-> 2, ipfsCid |-> <<>>]] :
     r \in {1, 2}, o \in {YES, NO}, c0 \in Strs, u1 \in Strs}

\* the tuples that differ from a in exactly one argument
OneFieldChanged(a) ==
  UNION {{[a EXCEPT ![f] = v] : v \in Words \ {a[f]}} :
           f \in {"marketId", "t0Rank", "t1Rank", "outcome", "nonce"}}
  \cup UNION {{[a EXCEPT ![e][f] = v] : v \in Words \ {a[e][f]}} :
                e \in {"t0Evidence", "t1Evidence"}, f \in {"csvSha256", "jsonSha256"}}
  \cup UNION {{[a EXCEPT ![e][f] = v] : v \in Strs \ {a[e][f]}} :
                e \in {"t0Evidence", "t1Evidence"}, f \in {"csvUrl", "jsonUrl", "ipfsCid"}}

\* computeCommitment on a tuple and on the same or a one-argument-changed tuple
CallComputeCommitment ==
  /\ last.op = "none"
  /\ \E a \in CommitmentArgs :
       \E b \in OneFieldChanged(a) \cup {a} :
         Call("computeCommitment", <<a, b, computeCommitment(a), computeCommitment(b)>>)

\* numbers a JSON document can give as an item's rank
JsonRanks == (-1)..MaxRank \cup {ABSENT_RANK, ABSENT_RANK + 1}

\* a document with one well-typed item is validated and the rank of its
\* item, and of an item it does not hold, is extracted
CallValidateAndExtract ==
  /\ last.op = "none"
  /\ \E rank \in JsonRanks :
       LET data == [schema |-> SCHEMA_TAG, typeOf |-> MetaTypes, isArray |-> TRUE,
                    items |-> <<Item(rank, <<"X">>)>>]
       IN Call("validateAndExtract",
               <<rank, validateSnapshotSchema(data),
                 extractRankBySongId(data, <<"X">>),
                 extractRankBySongId(data, <<"Y">>)>>)

\* encodePacked on two argument tuples
CallEncodePacked ==
  /\ last.op = "none"
  /\ \E a \in CommitmentArgs, b \in CommitmentArgs :
       Call("encodePacked", <<a, b, encodePacked(a), encodePacked(b)>>)

(* ------------------------------- backoff ------------------------------- *)
\* backoff.delay of the three enqueue helpers, in milliseconds
PREPARE_BACKOFF == 30000
COMMIT_BACKOFF == 60000
FINALIZE_BACKOFF == 300000

\* the same base delay for every queue
BackoffDelayUniform(q) == PREPARE_BACKOFF

BackoffDelay(q) ==
  IF q = "prepareResolve" THEN PREPARE_BACKOFF
  ELSE IF q = "commitResolve" THEN COMMIT_BACKOFF
  ELSE FINALIZE_BACKOFF

\* backoff type 'exponential': the delay before the retry that follows the
\* attemptsMade-th attempt is 2 ^ (attemptsMade - 1) * delay
Backoff(q, attemptsMade) == 2 ^ (attemptsMade - 1) * BackoffDelay(q)

\* the delay before each retry a queue's task can get: a task enqueued with
\* attempts: n is retried after its first n - 1 failed attempts
CallBackoff ==
  /\ last.op = "none"
  /\ \E q \in QueueNames :
       \E attemptsMade \in 1..(Attempts(q) - 1) :
         Call("backoff", <<q, attemptsMade, Backoff(q, attemptsMade)>>)

(* ------------------------------ job queues ----------------------------- *)
\* the options a caller passes to an enqueue helper; the helper spreads them
\* after its own settings, so a key named here replaces the helper's
NoOptions == [x \in {} |-> NULL]

Opt(options, key, default) ==
  IF key \in DOMAIN options THEN options[key] ELSE default

\* Queue.add with the helper's settings overlaid by the options: a job whose
\* id is already in the queue is ignored, otherwise the job waits until its
\* delay has passed
Add(q, m, delay, options) ==
  LET k == <<q, m, Opt(options, "jobId", "key")>> IN
  /\ queue' =
       IF queue[k].state # "none" THEN queue
       ELSE [queue EXCEPT ![k] =
               [state |-> "waiting", attemptsMade |-> 0,
                attempts |-> Opt(options, "attempts", Attempts(q)),
                notBefore |-> now + Opt(options, "delay", delay)]]
  /\ last' = NoExecution
  /\ UNCHANGED <<now, resolutions, chainTxs, disputeWindow, marketTable, snapshotTable, commitments, workers>>

\* the options and delays of the enqueue calls tried
PrepareOptions == {NoOptions, [jobId |-> "custom"], [attempts |-> 4]}
FinalizeOptions == {NoOptions, [delay |-> 0]}
Delays == {0, 1}

addPrepareResolveJob(m, options) == Add("prepareResolve", m, 0, options)

addCommitResolveJob(m, options) == Add("commitResolve", m, 0, options)

addFinalizeResolveJob(m, delay, options) == Add("finalizeResolve", m, delay, options)

\* a worker takes a waiting task whose delay has passed; the model runs one
\* task at a time
Dispatch(w, k) ==
  /\ Free(w)
  /\ queue[k].state = "waiting"
  /\ now >= queue[k].notBefore
  /\ \A k2 \in TaskKeys : queue[k2].state # "active"
  /\ queue' = [queue EXCEPT ![k].state = "active", ![k].attemptsMade = @ + 1]
  /\ last' = NoExecution
  /\ UNCHANGED <<now, resolutions, chainTxs, disputeWindow, marketTable, snapshotTable, commitments, workers>>

\* the processors of the three workers, run on the active task
prepareResolveWorker(w) ==
  \E k \in TaskKeys :
    /\ k[1] = "prepareResolve" /\ queue[k].state = "active"
    /\ PrepareResolveJob(w, k[2])

commitResolveWorker(w) ==
  \E k \in TaskKeys :
    /\ k[1] = "commitResolve" /\ queue[k].state = "active"
    /\ CommitResolveJob(w, k[2])

finalizeResolveWorker(w) ==
  \E k \in TaskKeys :
    /\ k[1] = "finalizeResolve" /\ queue[k].state = "active"
    /\ FinalizeResolveJob(w, k[2])

\* the prepare job run from its queue, enqueued with each of the options
NextPrepareQueue ==
  \/ Tick
  \/ \E m \in markets, options \in PrepareOptions : addPrepareResolveJob(m, options)
  \/ \E k \in TaskKeys : Dispatch("w1", k)
  \/ prepareResolveWorker("w1")

SpecPrepareQueue == Init /\ [][NextPrepareQueue]_vars

\* the commit and finalize jobs run from their queues on a prepared row
NextQueue ==
  \/ Tick
  \/ \E m \in markets : PrepareResolveJob("w1", m)
  \/ \E m \in markets : addCommitResolveJob(m, NoOptions)
  \/ \E m \in markets, delay \in Delays, options \in FinalizeOptions :
       addFinalizeResolveJob(m, delay, options)
  \/ \E k \in TaskKeys : Dispatch("w1", k)
  \/ commitResolveWorker("w1")
  \/ finalizeResolveWorker("w1")
  \/ sendCommitResolve("w1")
  \/ PersistCommit("w1")
  \/ sendFinalizeResolve("w1")
  \/ PersistFinalize("w1")

SpecQueue == Init /\ [][NextQueue]_vars

\* the library functions called on their own
NextLib ==
  \/ CallComputeOutcome
  \/ CallBackoff
  \/ CallEncodePacked
  \/ CallValidateAndExtract
  \/ CallExtractRank
  \/ CallComputeCommitment

SpecLib == Init /\ [][NextLib]_vars

\* the commit job with the chain settling its transactions
NextChain ==
  \/ Tick
  \/ Mine("w1")
  \/ \E m \in markets :
       \/ PrepareResolveJob("w1", m)
       \/ CommitResolveJob("w1", m)
  \/ sendCommitResolve("w1")
  \/ PersistCommit("w1")

SpecChain == Init /\ [][NextChain]_vars

\* the job handlers, one execution at a time, with the hashed values recorded
InitCommitment ==
  /\ commitments = Recording
  /\ now = 1
  /\ resolutions = [m \in markets |-> NoRow]
  /\ chainTxs = [k \in TxKeys |-> 0]
  /\ disputeWindow \in 1..MaxWindow
  /\ workers = [w \in Workers |-> Idle]
  /\ queue = [k \in TaskKeys |-> NoTask]
  /\ marketTable = [m \in markets |-> Market(m)]
  /\ snapshotTable = snapshots
  /\ last = NoExecution

NextCommitment ==
  \/ Tick
  \/ \E m \in markets :
       \/ PrepareResolveJob("w1", m)
       \/ CommitResolveJob("w1", m)
       \/ FinalizeResolveJob("w1", m)
  \/ sendCommitResolve("w1")
  \/ PersistCommit("w1")
  \/ sendFinalizeResolve("w1")
  \/ PersistFinalize("w1")

SpecCommitment == InitCommitment /\ [][NextCommitment]_vars

\* two worker processes run the job handlers concurrently
NextRace ==
  \/ Tick
  \/ \E w \in Workers, m \in markets :
       \/ PrepareResolveJob(w, m)
       \/ CommitResolveJob(w, m)
       \/ FinalizeResolveJob(w, m)
  \/ \E w \in Workers :
       \/ sendCommitResolve(w)
       \/ PersistCommit(w)
       \/ sendFinalizeResolve(w)
       \/ PersistFinalize(w)

SpecRace == Init /\ [][NextRace]_vars

(* ------------------------------- properties ---------------------------- *)
\* position of a stored status in DRAFT < PREPARED < COMMITTED < FINALIZED
StatusPhase(row) ==
  IF row = NoRow THEN 0
  ELSE IF row.status = "finalized" THEN 3
  ELSE IF row.status = "committed" THEN 2
  ELSE IF row.status = "prepared" THEN 1
  ELSE 0

\* the phase derived from which of outcome, commit_tx, finalize_tx are set
DerivedPhase(row) ==
  IF row = NoRow THEN 0
  ELSE IF row.finalizeTx # NULL THEN 3
  ELSE IF row.commitTx # NULL THEN 2
  ELSE IF row.outcome # NULL THEN 1
  ELSE 0

\* C1: once a market's outcome is non-null, no step of any handler changes it;
\* a later prepare naming other evidence does not overwrite it.
C1_OutcomeNeverChanges ==
  [][\A m \in markets :
       (resolutions[m] # NoRow /\ resolutions[m].outcome # NULL)
         => resolutions'[m].outcome = resolutions[m].outcome]_vars

\* C2: a step records a finalize transaction reference only on a row that
\* already holds a commit transaction reference and whose stored
\* dispute-window end is at or before the current time.
C2_FinalizeTxOnlyAfterWindow ==
  [][\A m \in markets :
       (/\ resolutions'[m] # NoRow
        /\ resolutions'[m].finalizeTx # NULL
        /\ (resolutions[m] = NoRow
              \/ resolutions[m].finalizeTx # resolutions'[m].finalizeTx))
         => (/\ resolutions[m] # NoRow
             /\ resolutions[m].commitTx # NULL
             /\ resolutions[m].disputeUntil # NULL
             /\ now >= resolutions[m].disputeUntil)]_vars

\* C3: of two workers executing the finalize job for one market at the same
\* time, at most one gets as far as having submitted a finalize transaction.
C3_OneFinalizeSubmission ==
  \A w1 \in Workers, w2 \in Workers :
    (/\ w1 # w2
     /\ workers[w1].op = "finalizeJob"
     /\ workers[w2].op = "finalizeJob"
     /\ workers[w1].marketId = workers[w2].marketId
     /\ workers[w1].pc = "persist")
      => workers[w2].pc # "persist"

\* C4: across any sequence of commit attempts, retries after a failure
\* included, at most one commit transaction is broadcast per market.
C4_OneCommitSubmission ==
  \A m \in markets : chainTxs[<<"commit", m>>] <= 1

\* C5: the phase of a row, stored as a status or derived from the fields
\* that are set, never decreases in any step.
C5_PhaseNeverDecreases ==
  [][\A m \in markets :
       /\ StatusPhase(resolutions'[m]) >= StatusPhase(resolutions[m])
       /\ DerivedPhase(resolutions'[m]) >= DerivedPhase(resolutions[m])]_vars

C7_CommitIdempotent ==
  [][\A w \in Workers, m \in markets :
       (/\ resolutions[m] # NoRow
        /\ resolutions[m].commitTx # NULL
        /\ (CommitResolveJob(w, m) \/ PluginCommit(w, m) \/ RoutesCommit(w, m)))
         => (/\ last'.op \in CommitOps
             /\ last'.ok
             /\ last'.txHash = resolutions[m].commitTx
             /\ workers'[w].pc = "idle"
             /\ UNCHANGED <<resolutions, chainTxs>>)]_vars

\* C8: any finalize handler run on a row that already holds a finalize
\* transaction reference ends at once, successfully, with the stored
\* reference, and neither broadcasts nor writes.
C8_FinalizeIdempotent ==
  [][\A w \in Workers, m \in markets :
       (/\ resolutions[m] # NoRow
        /\ resolutions[m].finalizeTx # NULL
        /\ (FinalizeResolveJob(w, m) \/ PluginFinalize(w, m)
              \/ RoutesFinalize(w, m)))
         => (/\ last'.op \in FinalizeOps
             /\ last'.ok
             /\ last'.txHash = resolutions[m].finalizeTx
             /\ workers'[w].pc = "idle"
             /\ UNCHANGED <<resolutions, chainTxs>>)]_vars

\* C9: the prepare job or the admin prepare route, run on a row whose outcome
\* is already set, leaves the row as it is, and what it returns on success is
\* the stored ranks and outcome, whatever dates or evidence the request names.
C9_PrepareIdempotent ==
  [][\A w \in Workers, m \in markets :
       (/\ resolutions[m] # NoRow
        /\ resolutions[m].outcome # NULL
        /\ (PrepareResolveJob(w, m) \/ PluginPrepare(w, m)))
         => (/\ UNCHANGED resolutions
             /\ last'.ok =>
                  last'.ret = <<resolutions[m].t0Rank, resolutions[m].t1Rank,
                                resolutions[m].outcome>>)]_vars

\* C10: a row that holds a commit transaction reference holds an outcome.
C10_CommitTxOnlyWithOutcome ==
  \A m \in markets :
    (resolutions[m] # NoRow /\ resolutions[m].commitTx # NULL)
      => resolutions[m].outcome # NULL

\* C11: a row holds a dispute-window end only if it holds a commit
\* transaction reference, and the stored end equals the stored commit
\* timestamp plus the window the chain reports.
C11_DisputeUntilFromCommit ==
  \A m \in markets :
    (resolutions[m] # NoRow /\ resolutions[m].disputeUntil # NULL)
      => (/\ resolutions[m].commitTx # NULL
          /\ resolutions[m].disputeUntil =
               DisputeUntil(resolutions[m].committedAt, disputeWindow))

\* C12: a handler records a commit transaction reference only when the
\* transaction it broadcast has already settled successfully on chain.
C12_PersistAfterSettled ==
  [][\A w \in Workers :
       (/\ workers[w].op \in CommitOps
        /\ workers[w].pc = "persist"
        /\ resolutions'[workers[w].marketId] # resolutions[workers[w].marketId])
         => workers[w].receipt = "success"]_vars

\* C13: once a commit job has succeeded and recorded the commit, the finalize
\* queue holds a task for that market that is scheduled no earlier than the
\* stored end of the dispute window.
C13_FinalizeScheduledAfterCommit ==
  (last.op = "commitJob" /\ last.ok /\ last.wrote)
    => \E k \in TaskKeys :
         /\ k[1] = "finalizeResolve" /\ k[2] = last.marketId
         /\ queue[k].state # "none"
         /\ queue[k].notBefore >= resolutions[last.marketId].disputeUntil

\* C14: whatever delay and options a finalize task was enqueued with, it is
\* handed to the worker only when the clock has reached the dispute-window end
\* stored for its market.
C14_FinalizeDispatchAfterWindow ==
  [][\A k \in TaskKeys :
       (/\ k[1] = "finalizeResolve"
        /\ Dispatch("w1", k)
        /\ resolutions[k[2]] # NoRow
        /\ resolutions[k[2]].disputeUntil # NULL)
         => now >= resolutions[k[2]].disputeUntil]_vars

\* C15: for each phase and market at most one task is pending (waiting or
\* running) at any time.
C15_OnePendingTaskPerKey ==
  \A q \in QueueNames, m \in markets :
    Cardinality({k \in TaskKeys : /\ k[1] = q /\ k[2] = m
                                  /\ queue[k].state \in {"waiting", "active"}}) <= 1

\* C16: a task is attempted at most 3 times (prepare), 5 times (commit) or
\* 3 times (finalize), and it is marked failed exactly when its last allowed
\* attempt has failed.
C16_AttemptLimits ==
  \A k \in TaskKeys :
    /\ queue[k].attemptsMade <= Attempts(k[1])
    /\ queue[k].state = "failed" => queue[k].attemptsMade = Attempts(k[1])

\* C17: a notification goes out only for a successful finalization or for a
\* failure that left the task failed for good; a failed attempt that will be
\* retried and a successful commit send none.
C17_AlertsOnlyTerminal ==
  last.alert # "none"
    => \/ last.alert = "success" /\ last.op = "finalizeJob"
       \/ /\ last.alert = "failure"
          /\ \E k \in TaskKeys :
               /\ k[1] = QueueOf(last.op) /\ k[2] = last.marketId
               /\ queue[k].state = "failed"

\* C18: a finalize job rejected because the dispute window is still open
\* raises no failure alert.
C18_WindowActiveNoAlert ==
  (last.op = "finalizeJob" /\ last.code = "windowActive") => last.alert # "failure"

\* C19: a prepare attempt that fails with a fatal error (digest mismatch,
\* invalid schema, market not found) is not requeued: its task is failed.
C19_FatalNotRetried ==
  [][\A k \in TaskKeys :
       (/\ k[1] = "prepareResolve"
        /\ queue[k].state = "active"
        /\ last'.op = "prepareJob"
        /\ last'.code \in {"integrity", "schema", "notFound"})
         => queue'[k].state = "failed"]_vars

\* C20: a prepare, commit or finalize job execution that ends in failure
\* leaves every resolution row as it was when the execution started: no step
\* of an execution still under way writes a row, and neither does the step
\* that ends it in failure.
C20_FailureLeavesRow ==
  [][(\/ last'.op \in JobOps /\ ~last'.ok
      \/ \E w \in Workers : workers'[w].op \in JobOps /\ workers'[w].pc # "idle")
       => UNCHANGED resolutions]_vars

\* a commit job failed after its transaction was sent, and the row still
\* holds no commit
C20_Witness ==
  /\ last.op = "commitJob" /\ ~last.ok /\ last.sent
  /\ resolutions[last.marketId] # NoRow
  /\ resolutions[last.marketId].commitTx = NULL
  /\ resolutions[last.marketId].outcome # NULL

\* C21: the scenario of a market registered at rank r0 whose t1 snapshot ranks
\* the song at r1 < r0, run by the jobs: prepare stores outcome YES; commit
\* stores commit time + window as the window end; a finalize execution that
\* ends before the stored window end is rejected; and a finalize execution
\* succeeds only on a row no finalize has succeeded on before.
C21_Scenario ==
  [][\A m \in markets :
       last'.marketId = m =>
         /\ (/\ last'.op = "prepareJob" /\ last'.ok
             /\ resolutions'[m].t1Rank < marketT0Rank[m])
              => resolutions'[m].outcome = YES
         /\ (last'.op = "commitJob" /\ last'.ok /\ last'.wrote)
              => resolutions'[m].disputeUntil = DisputeUntil(now, disputeWindow)
         /\ (/\ last'.op = "finalizeJob"
             /\ resolutions[m] # NoRow
             /\ resolutions[m].disputeUntil # NULL
             /\ now < resolutions[m].disputeUntil)
              => ~last'.ok
         /\ (last'.op = "finalizeJob" /\ last'.ok /\ last'.wrote)
              => resolutions[m].finalizeTx = NULL]_vars

\* C22: a prepare job that succeeds on a row whose snapshot references, ranks
\* and outcome are already the ones this run stores (the row a run with the
\* same inputs left) leaves the whole row as it was; and in every state with
\* a prepared row a run storing those same values can complete without error.
C22_PrepareTwiceSameRow ==
  /\ [](\A m \in markets :
          (Free("w1") /\ resolutions[m] # NoRow /\ resolutions[m].t0SnapshotId # NULL)
            => ENABLED (/\ PrepareResolveJob("w1", m)
                        /\ last'.ok
                        /\ resolutions' = resolutions))
  /\ [][\A m \in markets :
          (/\ last'.op = "prepareJob" /\ last'.ok /\ last'.marketId = m
           /\ resolutions[m] # NoRow
           /\ \A f \in {"t0SnapshotId", "t1SnapshotId", "t0Rank", "t1Rank", "outcome"} :
                resolutions[m][f] = resolutions'[m][f])
            => resolutions'[m] = resolutions[m]]_vars

\* the prepare job has succeeded on a row that was already committed, and the
\* commit columns are still there
C22_Witness ==
  /\ last.op = "prepareJob" /\ last.ok
  /\ resolutions[last.marketId] # NoRow
  /\ resolutions[last.marketId].commitTx # NULL
  /\ resolutions[last.marketId].outcome = last.ret[3]

\* C23: the table holds one row or none per market, and a market gets its row
\* only in the step in which a prepare for that market succeeds: not before
\* its first prepare, and not from a prepare that fails.
C23_RowCreatedByPrepare ==
  [][/\ DOMAIN resolutions' = markets
     /\ \A m \in markets :
          (resolutions[m] = NoRow /\ resolutions'[m] # NoRow)
            => (last'.op \in PrepareOps /\ last'.ok /\ last'.marketId = m)]_vars

\* a prepare job failed on a missing snapshot, a digest mismatch or an
\* invalid schema, and the market has no row
C23_Witness ==
  /\ last.op = "prepareJob" /\ ~last.ok
  /\ last.code \in {"noSnapshot", "integrity", "schema"}
  /\ resolutions[last.marketId] = NoRow

\* C24: a prepare job step that changes the row is a successful one, and the
\* ranks it stores are those of bytes whose recomputed digest equals, case
\* aside, the digest expected for the stored snapshot; a run that ends with a
\* network or digest error leaves the table as it was.
C24_PrepareOnlyVerified ==
  [][\A m \in markets :
       (last'.op = "prepareJob" /\ last'.marketId = m) =>
         /\ resolutions'[m] # resolutions[m] =>
              LET r == resolutions'[m]
                  Verified(sid, rank) ==
                    \E data \in {Document[u] : u \in Urls} \cup {Tampered} :
                      /\ toLowerCase(sha256(data)) = toLowerCase(snapshots[sid].jsonSha256)
                      /\ rank = extractRankBySongId(data, songId[m])
              IN /\ last'.ok
                 /\ Verified(r.t0SnapshotId, r.t0Rank)
                 /\ Verified(r.t1SnapshotId, r.t1Rank)
                 /\ r.outcome = computeOutcome(r.t0Rank, r.t1Rank)
         /\ last'.code \in {"network", "integrity"} => UNCHANGED resolutions]_vars

\* a prepare job was refused for a digest mismatch and nothing was stored
C24_Witness ==
  /\ last.op = "prepareJob" /\ ~last.ok /\ last.code = "integrity"
  /\ resolutions[last.marketId] = NoRow

\* C25: a prepare job step that changes the row stores ranks of documents
\* that carry the exact schema tag, metadata fields of the required types and
\* items that each have a number rank, string title, string artist, number
\* volume and string identifier; a run that ends with a schema error leaves
\* the table as it was.
C25_PrepareOnlyValidSchema ==
  [][\A m \in markets :
       (last'.op = "prepareJob" /\ last'.marketId = m) =>
         /\ resolutions'[m] # resolutions[m] =>
              \A sid \in {resolutions'[m].t0SnapshotId, resolutions'[m].t1SnapshotId} :
                LET data == Document[snapshots[sid].jsonUrl] IN
                /\ data.schema = SCHEMA_TAG
                /\ \A f \in {"dateUTC", "region", "provider"} : data.typeOf[f] = "string"
                /\ data.typeOf.listLength = "number"
                /\ data.isArray
                /\ \A i \in 1..Len(data.items) :
                     /\ \A f \in {"rank", "streams"} : data.items[i].typeOf[f] = "number"
                     /\ \A f \in {"title", "artist", "trackId"} :
                          data.items[i].typeOf[f] = "string"
         /\ last'.code = "schema" => (~last'.ok /\ UNCHANGED resolutions)]_vars

\* a prepare job was refused for an invalid schema and nothing was stored
C25_Witness ==
  /\ last.op = "prepareJob" /\ ~last.ok /\ last.code = "schema"
  /\ resolutions[last.marketId] = NoRow

\* C26: for all ranks a and b, the absent rank 101 included, computeOutcome(a, b)
\* is YES exactly when b < a and NO otherwise.
C26_OutcomeRule ==
  last.op = "computeOutcome" =>
    /\ last.ret[3] \in {YES, NO}
    /\ last.ret[3] = YES <=> last.ret[2] < last.ret[1]

\* computeOutcome was called with an absent t1 rank and with equal ranks in
\* the chart, and answered NO
C26_Witness ==
  /\ last.op = "computeOutcome"
  /\ last.ret[1] = MaxRank
  /\ last.ret[2] \in {MaxRank, ABSENT_RANK}
  /\ last.ret[3] = NO

C28_CommitmentBindsEveryField ==
  last.op = "computeCommitment" =>
    (last.ret[1] = last.ret[2]) <=> (last.ret[3] = last.ret[4])

\* two calls differed only in the t0 ipfsCid, a string that is followed by
\* another string in the packing, and gave different digests
C28_Witness ==
  /\ last.op = "computeCommitment"
  /\ last.ret[1].t0Evidence.ipfsCid # last.ret[2].t0Evidence.ipfsCid
  /\ Len(last.ret[1].t0Evidence.ipfsCid) # Len(last.ret[2].t0Evidence.ipfsCid)
  /\ last.ret[1].t1Evidence.csvUrl # <<>>
  /\ last.ret[3] # last.ret[4]

C30_FinalizedMarketResolved ==
  (/\ last.op \in FinalizeOps
   /\ last.ok
   /\ last.marketId \in markets)
    => marketTable[last.marketId].status = "RESOLVED"

\* C31: a request to a prepare-resolve, commit or finalize route whose
\* X-Admin-Key header is absent or is not the configured key is answered 401,
\* broadcasts no transaction and changes no resolutions row.
C31_UnauthorizedRejected ==
  [][\A m \in markets, adminKey \in HeaderValues :
       (/\ adminAuth(adminKey) = UNAUTHORIZED
        /\ \/ PostPluginPrepare("w1", m, adminKey)
           \/ PostPluginCommit("w1", m, adminKey)
           \/ PostPluginFinalize("w1", m, adminKey)
           \/ PostRoutesPrepare("w1", m, adminKey)
           \/ PostRoutesCommit("w1", m, adminKey)
           \/ PostRoutesFinalize("w1", m, adminKey))
         => (/\ last'.code = "unauthorized"
             /\ UNCHANGED <<resolutions, chainTxs>>)]_vars

\* C32: the delay before retry k grows from prepare to commit to finalize
\* for every k that both phases can reach, and within one phase the delay
\* before a retry is not shorter than the delay before the retry preceding it.
C32_BackoffSchedule ==
  last.op = "backoff" =>
    LET q == last.ret[1]
        k == last.ret[2]
        delay == last.ret[3]
    IN /\ k > 1 => delay >= Backoff(q, k - 1)
       /\ (q = "prepareResolve" /\ k < COMMIT_ATTEMPTS)
            => delay < Backoff("commitResolve", k)
       /\ (q = "commitResolve" /\ k < FINALIZE_ATTEMPTS)
            => delay < Backoff("finalizeResolve", k)

\* the delay before the second retry of a commit task was computed: it is
\* twice the first, and shorter than the finalize delay before its second retry
C32_Witness ==
  /\ last.op = "backoff"
  /\ last.ret[1] = "commitResolve"
  /\ last.ret[2] = 2
  /\ last.ret[3] = 2 * COMMIT_BACKOFF
  /\ last.ret[3] < Backoff("finalizeResolve", 2)

\* C33: the outcome, ranks and evidence a finalize passes to the chain are
\* the values that were hashed, with nonce 0, into the commitment of the
\* commit transaction broadcast before it for the market, whatever prepare,
\* commit and finalize executions ran in between.
C33_FinalizeSubmitsCommitted ==
  [][\A w \in Workers :
       (sendFinalizeResolve(w) /\ chainTxs' # chainTxs)
         => workers[w].args = commitments.hashed[workers[w].marketId]]_vars

\* C34: once a market's commit transaction, commit time and dispute-window
\* end are stored, no step changes them, also when two commit executions run
\* concurrently and the second has read the row before the first wrote it.
C34_CommitFieldsWrittenOnce ==
  [][\A m \in markets :
       (resolutions[m] # NoRow /\ resolutions[m].commitTx # NULL)
         => /\ resolutions'[m].commitTx = resolutions[m].commitTx
            /\ resolutions'[m].committedAt = resolutions[m].committedAt
            /\ resolutions'[m].disputeUntil = resolutions[m].disputeUntil]_vars

\* C35: the bytes computeCommitment hashes encode the argument tuple
\* injectively: two tuples that differ in any field, also when they differ
\* only in how the same bytes are split between two adjacent strings, give
\* different byte sequences.
C35_EncodingInjective ==
  last.op = "encodePacked" =>
    (last.ret[1] # last.ret[2] => last.ret[3] # last.ret[4])

\* C36: a finalize task whose attempt was rejected because the dispute
\* window is still active is left waiting, to be run again later; such a
\* rejection never leaves the task failed, however long the window is.
C36_WindowActiveRequeued ==
  \A k \in TaskKeys :
    (/\ k[1] = "finalizeResolve"
     /\ last.op = "finalizeJob"
     /\ last.code = "windowActive"
     /\ last.marketId = k[2]
     /\ queue[k].attemptsMade > 0)
      => queue[k].state \in {"waiting", "active"}

\* C37: a commit for a market without a row or without a stored outcome, and
\* a finalize for a market without a stored commit transaction or without a
\* stored window end, fail in their first step: no transaction is broadcast
\* and the row is not written.  This holds for the jobs and for every commit
\* and finalize route.
C37_PreconditionsChecked ==
  [][\A m \in MarketIds :
       LET row == getResolution(m)
           Rejected(ops) ==
             /\ last'.op \in ops
             /\ ~last'.ok
             /\ UNCHANGED <<resolutions, chainTxs>>
       IN /\ (/\ row = NoRow \/ row.outcome = NULL
              /\ \/ CommitResolveJob("w1", m)
                 \/ PluginCommit("w1", m)
                 \/ RoutesCommit("w1", m))
               => Rejected(CommitOps)
          /\ (/\ row = NoRow \/ row.commitTx = NULL \/ row.disputeUntil = NULL
              /\ \/ FinalizeResolveJob("w1", m)
                 \/ PluginFinalize("w1", m)
                 \/ RoutesFinalize("w1", m))
               => Rejected(FinalizeOps)]_vars

\* C38: for a schema-valid document the rank extracted for an item that is
\* present is a positive integer not greater than the absent rank 101, and
\* the rank extracted for an item that is not present is 101.
C38_RankRange ==
  (last.op = "validateAndExtract" /\ last.ret[2])
    => /\ last.ret[3] \in 1..ABSENT_RANK
       /\ last.ret[4] = ABSENT_RANK

\* C39: whenever a row's outcome is set, its t0Rank and t1Rank are set too
\* and the outcome is YES exactly when the stored t1Rank is below the stored
\* t0Rank; a step that changes one of the three columns is a successful
\* prepare, which stores all three together.
C39_OutcomeMatchesRanks ==
  [][\A m \in markets :
       LET old == resolutions[m]
           new == resolutions'[m]
           Val(row, f) == IF row = NoRow THEN NULL ELSE row[f]
       IN /\ Val(new, "outcome") # NULL
               => /\ new.t0Rank # NULL
                  /\ new.t1Rank # NULL
                  /\ new.outcome \in {YES, NO}
                  /\ new.outcome = YES <=> new.t1Rank < new.t0Rank
          /\ (\E f \in {"t0Rank", "t1Rank", "outcome"} : Val(old, f) # Val(new, f))
               => /\ last'.op \in PrepareOps
                  /\ last'.ok
                  /\ last'.ret = <<new.t0Rank, new.t1Rank, new.outcome>>]_vars

\* a prepare has stored equal ranks with outcome NO on a row that already
\* held a commit transaction
C39_Witness ==
  /\ last.op \in PrepareOps
  /\ last.wrote
  /\ resolutions[last.marketId].commitTx # NULL
  /\ resolutions[last.marketId].t0Rank = resolutions[last.marketId].t1Rank
  /\ resolutions[last.marketId].t0Rank # NULL
  /\ resolutions[last.marketId].outcome = NO

\* C40: upsertResolution on an existing row changes only the columns it is
\* given: the commit write leaves the snapshot references, ranks, outcome and
\* finalize columns as they were, and the finalize write leaves the snapshot
\* references, ranks, outcome, commit_tx, committed_at and dispute_until as
\* they were.
C40_UpsertFrame ==
  [][\A w \in Workers :
       LET m == workers[w].marketId
           Kept(cols) ==
             resolutions[m] # NoRow
               => /\ resolutions'[m] # NoRow
                  /\ \A f \in Fields \ cols : resolutions'[m][f] = resolutions[m][f]
       IN /\ PersistCommit(w) => Kept({"commitTx", "committedAt", "disputeUntil"})
          /\ PersistFinalize(w) => Kept({"finalizeTx", "finalizedAt"})]_vars

\* a commit has just stored its transaction on a prepared row: the snapshot
\* references, ranks and outcome are still there and no finalize column is set
C40_Witness ==
  /\ last.op \in {"commitJob", "commitPlugin"}
  /\ last.ok
  /\ last.wrote
  /\ resolutions[last.marketId].commitTx = last.txHash
  /\ resolutions[last.marketId].t0SnapshotId # NULL
  /\ resolutions[last.marketId].t1Rank # NULL
  /\ resolutions[last.marketId].outcome # NULL
  /\ resolutions[last.marketId].finalizeTx = NULL
====
